---- MODULE Spec2Model ----
(***************************************************************************)
(* Universal Data Cleaner: the profiling and rule-based cleaning engine.   *)
(*                                                                         *)
(*   helpers.py      standardize_column_names, safe_to_numeric,            *)
(*                   calculate_iqr_bounds, try_parse_datetime,             *)
(*                   infer_column_type                                     *)
(*   rule_engine.py  RuleEngine.__init__ / apply / _apply_global_rules /   *)
(*                   _handle_type_cast / _handle_missing / _handle_outliers*)
(*   profiler.py     DataProfiler.profile / _outlier_info                  *)
(*   app.py          the rule suggestion loop                              *)
(*                                                                         *)
(* A DataFrame is [n |-> row count, cols |-> sequence of columns]; a       *)
(* column is [name, kind, cells] where kind is the dtype kind ("f" float,  *)
(* "O" object, "M" datetime64, "c" category) and cells has n entries.      *)
(* A cell is [t, n, s]: t = "nan" (missing: NaN / None / NaT), "num" (a    *)
(* number, n holds the value times Scale), "dt" (a timestamp, n likewise)  *)
(* or "str" (a string, s holds it).  Numbers are exact rationals with      *)
(* denominator Scale, so that mean, median and the linearly interpolated   *)
(* quartiles are computed without rounding.                                *)
(*                                                                         *)
(* Python objects that can be aliased (the caller's DataFrame and the      *)
(* engine's self.df) live in a heap of two references, so that an in-place *)
(* pandas operation on self.df is visible through every reference to the   *)
(* same object.                                                            *)
(***************************************************************************)
EXTENDS Integers, Sequences, FiniteSets, TLC

VARIABLES
    heap,        \* reference -> DataFrame: 1 is the caller's object
    self_df,     \* RuleEngine.df: the reference the engine works on
    rules,       \* RuleEngine.rules: [global_rules, columns]
    audit_log,   \* RuleEngine.audit_log
    pc,          \* position inside apply()
    idx,         \* position of the loop over rules["columns"].items()
    pass,        \* 1: first apply(); 2: apply() on the first result
    first,       \* what the first apply() returned (df and audit log)
    orig,        \* the caller's dataset as it was before RuleEngine(D, R)
    prof         \* the profiler / rule suggestion run

vars == <<heap, self_df, rules, audit_log, pc, idx, pass, first, orig, prof>>

(***************************************************************************)
(* Bounds of the model.                                                    *)
(***************************************************************************)
MaxCells == 4       \* cells of a dataset apply() is run on (rows times columns)
MaxDupRows == 3     \* rows of a dataset the global phase is run twice on
MaxNameLen == 2     \* characters of a column name there
MaxProfRows == 7    \* rows of a profiled column

RECURSIVE Fact(_)
Fact(k) == IF k <= 1 THEN 1 ELSE k * Fact(k - 1)

\* every mean of at most MaxCells values and every median is a multiple of 1/Scale
Scale == 2 * Fact(MaxCells)

(***************************************************************************)
(* Cells.                                                                  *)
(***************************************************************************)
NaN == [t |-> "nan", n |-> 0, s |-> ""]
Num(v) == [t |-> "num", n |-> v * Scale, s |-> ""]
Str(x) == [t |-> "str", n |-> 0, s |-> x]

isna(c) == c.t = "nan"

Range(s) == {s[i] : i \in DOMAIN s}

\* the entries of s at the positions of mask, in order
SelectIdx(s, mask) ==
    LET F[i \in 0..Len(s)] ==
            IF i = 0 THEN <<>>
            ELSE IF i \in mask THEN Append(F[i - 1], s[i]) ELSE F[i - 1]
    IN F[Len(s)]

RECURSIVE SumSeq(_)
SumSeq(s) == IF s = <<>> THEN 0 ELSE Head(s) + SumSeq(Tail(s))

\* Series.dropna(): the non-missing cells, in order
dropna(cells) == SelectSeq(cells, LAMBDA c : ~isna(c))

\* Series.isna().sum()
isna_sum(cells) == Len(cells) - Len(dropna(cells))

\* the order pandas sorts strings in (only these strings occur)
StrRank(x) == CASE x = "a" -> 1 [] x = "b" -> 2 [] OTHER -> 3

CellLess(a, b) ==
    IF a.t = "str" /\ b.t = "str" THEN StrRank(a.s) < StrRank(b.s) ELSE a.n < b.n

\* the non-missing values, sorted ascending
SortedVals(cells) == SortSeq(dropna(cells), CellLess)

(***************************************************************************)
(* helpers.py                                                              *)
(***************************************************************************)
Whitespace == {" "}
WordChars == {"X", "Y", "x", "y", "_"}
Lower(ch) == CASE ch = "X" -> "x" [] ch = "Y" -> "y" [] OTHER -> ch

RECURSIVE LStrip(_)
LStrip(s) == IF s # <<>> /\ Head(s) \in Whitespace THEN LStrip(Tail(s)) ELSE s

RECURSIVE RStrip(_)
RStrip(s) ==
    IF s # <<>> /\ s[Len(s)] \in Whitespace THEN RStrip(SubSeq(s, 1, Len(s) - 1)) ELSE s

\* the first character of s that is no word character removed
RECURSIVE RemoveFirstNonWord(_)
RemoveFirstNonWord(s) ==
    IF s = <<>> THEN <<>>
    ELSE IF Head(s) \notin WordChars THEN Tail(s)
    ELSE <<Head(s)>> \o RemoveFirstNonWord(Tail(s))

StandardizeNameFirstMatchOnly(name) ==
    LET stripped == LStrip(RStrip(name))
        lowered  == [i \in DOMAIN stripped |-> Lower(stripped[i])]
        replaced == [i \in DOMAIN lowered |-> IF lowered[i] = " " THEN "_" ELSE lowered[i]]
    IN RemoveFirstNonWord(replaced)

\* .str.strip().str.lower().str.replace(" ", "_").str.replace(r"[^\w_]", "")
StandardizeName(name) ==
    LET stripped == LStrip(RStrip(name))
        lowered  == [i \in DOMAIN stripped |-> Lower(stripped[i])]
        replaced == [i \in DOMAIN lowered |-> IF lowered[i] = " " THEN "_" ELSE lowered[i]]
    IN SelectSeq(replaced, LAMBDA ch : ch \in WordChars)

\* standardize_column_names(df): a copy of df with every column renamed
standardize_column_names(df) ==
    [df EXCEPT !.cols = [i \in DOMAIN df.cols |->
                            [df.cols[i] EXCEPT !.name = StandardizeName(df.cols[i].name)]]]

\* pd.to_numeric(errors="coerce") on one cell
ToNumericCell(c) == IF c.t \in {"num", "dt"} THEN [c EXCEPT !.t = "num"] ELSE NaN

\* safe_to_numeric(series)
safe_to_numeric(col) ==
    [col EXCEPT !.kind = "f", !.cells = [i \in DOMAIN col.cells |-> ToNumericCell(col.cells[i])]]

\* Series.quantile(q4 / 4), linear interpolation, times 4; the series has no
\* missing value and is not empty
Quantile4(sorted, q4) ==
    LET pos4 == (Len(sorted) - 1) * q4
        k    == pos4 \div 4
        r    == pos4 % 4
    IN IF r = 0 THEN 4 * sorted[k + 1].n
       ELSE (4 - r) * sorted[k + 1].n + r * sorted[k + 2].n

\* calculate_iqr_bounds(series.dropna()): lower and upper, times 8; the
\* quantile of an empty series is NaN, and so are both bounds
calculate_iqr_bounds(cells) ==
    LET sorted == SortedVals(cells) IN
    IF sorted = <<>> THEN [nan |-> TRUE, lower |-> 0, upper |-> 0]
    ELSE LET q1  == Quantile4(sorted, 1)
             q3  == Quantile4(sorted, 3)
             iqr == q3 - q1
         IN [nan |-> FALSE, lower |-> 2 * q1 - 3 * iqr, upper |-> 2 * q3 + 3 * iqr]

\* series < lower, series > upper, series >= lower, series <= upper on one cell:
\* every comparison with a missing cell or a NaN bound is False
BelowLower(c, b) == ~isna(c) /\ ~b.nan /\ 8 * c.n < b.lower
AboveUpper(c, b) == ~isna(c) /\ ~b.nan /\ 8 * c.n > b.upper
AtLeastLower(c, b) == ~isna(c) /\ ~b.nan /\ 8 * c.n >= b.lower
AtMostUpper(c, b) == ~isna(c) /\ ~b.nan /\ 8 * c.n <= b.upper

(***************************************************************************)
(* DataFrame operations used by the engine.                                *)
(***************************************************************************)
ColNames(df) == {df.cols[i].name : i \in DOMAIN df.cols}

\* col in df.columns
HasCol(df, name) == name \in ColNames(df)

\* position of the column called name (names are unique where this is used)
ColIndex(df, name) == CHOOSE i \in DOMAIN df.cols : df.cols[i].name = name

\* df[name]
GetCol(df, name) == df.cols[ColIndex(df, name)]

\* df[name] = series
SetCol(df, name, col) == [df EXCEPT !.cols[ColIndex(df, name)] = col]

\* df.drop(columns=[name]): every column called name goes, the rows stay
DropCols(df, name) ==
    [df EXCEPT !.cols = SelectSeq(df.cols, LAMBDA c : c.name # name)]

\* row i of df, across the current columns
Row(df, i) == [c \in DOMAIN df.cols |-> df.cols[c].cells[i]]

\* df[mask]: the rows whose position is in mask, in order
FilterRows(df, mask) ==
    LET kept == SelectIdx([i \in 1..df.n |-> i], mask)
    IN [n |-> Len(kept),
        cols |-> [c \in DOMAIN df.cols |->
                    [df.cols[c] EXCEPT !.cells = [j \in DOMAIN kept |-> df.cols[c].cells[kept[j]]]]]]

\* df.drop_duplicates(): keep="first", whole rows compared, missing equal to
\* missing; a frame without columns is returned as it is
drop_duplicates(df) ==
    IF df.cols = <<>> THEN df
    ELSE FilterRows(df, {i \in 1..df.n : \A j \in 1..(i - 1) : Row(df, j) # Row(df, i)})

\* df.dropna(subset=[name])
dropna_subset(df, name) ==
    FilterRows(df, {i \in 1..df.n : ~isna(GetCol(df, name).cells[i])})

(***************************************************************************)
(* Series statistics used by _handle_missing.                              *)
(***************************************************************************)
\* Series.mean(): NaN when there is no value
mean(cells) ==
    LET vals == dropna(cells) IN
    IF vals = <<>> THEN NaN
    ELSE [vals[1] EXCEPT !.n = SumSeq([i \in DOMAIN vals |-> vals[i].n]) \div Len(vals)]

\* Series.median(): NaN when there is no value
median(cells) ==
    LET sorted == SortedVals(cells)
        k      == Len(sorted)
    IN IF k = 0 THEN NaN
       ELSE IF k % 2 = 1 THEN sorted[(k + 1) \div 2]
       ELSE [sorted[1] EXCEPT !.n = (sorted[k \div 2].n + sorted[k \div 2 + 1].n) \div 2]

Count(cells, v) == Cardinality({i \in DOMAIN cells : cells[i] = v})

\* Series.mode()[0]: mode() holds the most frequent values sorted ascending;
\* only used when the series has a value
mode0(cells) ==
    LET sorted == SortedVals(cells)
        best   == CHOOSE i \in DOMAIN sorted :
                     /\ \A j \in DOMAIN sorted : Count(cells, sorted[j]) <= Count(cells, sorted[i])
                     /\ \A j \in 1..(i - 1) : Count(cells, sorted[j]) < Count(cells, sorted[i])
    IN sorted[best]

\* Series.fillna(value): filling with NaN fills nothing
fillna(cells, value) ==
    [i \in DOMAIN cells |-> IF isna(cells[i]) THEN value ELSE cells[i]]

HasStr(cells) == \E i \in DOMAIN cells : cells[i].t = "str"

\* What the statistic or the fill of a strategy does on a column of this kind:
\* "ok" or "raise" (the exception leaves _handle_missing before the column is
\* assigned).  mean/median of strings and of a category raise TypeError,
\* mode()[0] of a series without values raises KeyError, a category refuses a
\* fill value that is not one of its categories.  Where pandas versions differ
\* (the mean of an object column without values, filling a datetime column
\* with a string) both outcomes are kept.
MissingOutcomes(col, strategy) ==
    CASE strategy \in {"mean", "median"} ->
            (CASE col.kind \in {"f", "M"} -> {"ok"}
               [] col.kind = "c" -> {"raise"}
               [] OTHER -> IF HasStr(col.cells) THEN {"raise"} ELSE {"ok", "raise"})
      [] strategy = "mode" -> IF dropna(col.cells) = <<>> THEN {"raise"} ELSE {"ok"}
      [] strategy = "constant" ->
            (CASE col.kind \in {"f", "O"} -> {"ok"}
               [] col.kind = "c" -> {"raise"}
               [] OTHER -> {"ok", "raise"})
      [] OTHER -> {"ok"}

\* the value rule["missing"].get("value", "Unknown"): the rules of the
\* application never carry a value
ConstantValue == Str("Unknown")

\* the column after self.df[col] = self.df[col].fillna(...)
FillColumn(col, strategy) ==
    LET value == CASE strategy = "mean" -> mean(col.cells)
                   [] strategy = "median" -> median(col.cells)
                   [] strategy = "mode" -> mode0(col.cells)
                   [] OTHER -> ConstantValue
        upcast == strategy = "constant" /\ isna_sum(col.cells) > 0
    IN [col EXCEPT !.cells = fillna(col.cells, value),
                   !.kind = IF upcast THEN "O" ELSE col.kind]

\* What quantile and the comparison with the bounds do on a column of this
\* kind: strings and categories raise TypeError before any row is removed; an
\* object column without values differs between pandas versions.
OutlierOutcomes(col) ==
    CASE col.kind \in {"f", "M"} -> {"ok"}
      [] col.kind = "c" -> {"raise"}
      [] OTHER -> IF HasStr(col.cells) THEN {"raise"} ELSE {"ok", "raise"}

(***************************************************************************)
(* Audit entries (the strings of the log, as records).                     *)
(***************************************************************************)
Entry(kind, col, a, b, what) == [kind |-> kind, col |-> col, a |-> a, b |-> b, what |-> what]

\* "Standardized column names"
EntryStandardized == Entry("standardized", <<>>, 0, 0, "")
\* "Dropped {n} duplicate rows"
EntryDuplicates(n) == Entry("duplicates", <<>>, n, 0, "")
\* "Dropped column: {col}"
EntryDropped(col) == Entry("dropped_column", col, 0, 0, "")
\* "{col}: cast to {type}"
EntryCast(col, type) == Entry("cast", col, 0, 0, type)
\* "{col}: missing handled ({before} -> {after}) using {strategy}"
EntryMissing(col, before, after, strategy) == Entry("missing", col, before, after, strategy)
\* "{col}: removed {removed} outliers using IQR"
EntryOutliers(col, removed) == Entry("outliers", col, removed, 0, "")

(***************************************************************************)
(* RuleEngine                                                              *)
(***************************************************************************)
CallerRef == 1

\* self.df = df.copy(): the reference of a fresh object equal to the caller's
AliasedDfRef == CallerRef
EngineDfRef == 2

\* self.df
Df == heap[self_df]

\* self.df = <a new DataFrame>: the name is bound to a fresh object
Rebind(df) ==
    /\ heap' = [heap EXCEPT ![2] = df]
    /\ self_df' = 2

\* an in-place operation on the object self.df refers to
InPlace(df) ==
    /\ heap' = [heap EXCEPT ![self_df] = df]
    /\ UNCHANGED self_df

\* self.audit_log.append(entry)
LogForgotten(entry) == UNCHANGED audit_log
Log(entry) == audit_log' = Append(audit_log, entry)

Frame == UNCHANGED <<rules, pass, first, orig, prof>>

\* the (col, rule) pair the loop of apply() is at
Cur == rules.columns[idx]

\* apply(): the three handlers of a kept column, in the order they are called
HandlerOrderSwapped == <<"type_cast", "outliers", "missing">>
HandlerOrder == <<"type_cast", "missing", "outliers">>

\* the statement after handler step: the next handler, or the loop head
After(step) ==
    LET i == CHOOSE j \in DOMAIN HandlerOrder : HandlerOrder[j] = step
    IN IF i < Len(HandlerOrder) THEN HandlerOrder[i + 1] ELSE "loop"

\* a handler returns: on to the next handler, or to the next (col, rule) pair
Continue ==
    /\ pc' = After(pc)
    /\ idx' = IF After(pc) = "loop" THEN idx + 1 ELSE idx

\* an exception leaves apply(): nothing catches it
Raise ==
    /\ pc' = "raised"
    /\ UNCHANGED <<heap, self_df, audit_log, idx>>

\* rule.get("drop")
IsDropRuleOnlyKey(rule) == rule.drop /\ rule.type = "" /\ rule.missing = "" /\ ~rule.outliers
IsDropRule(rule) == rule.drop

\* _apply_global_rules, first statement
GlobalStandardize ==
    /\ pc = "standardize"
    /\ IF rules.global_rules.standardize_column_names
       THEN Rebind(standardize_column_names(Df)) /\ Log(EntryStandardized)
       ELSE UNCHANGED <<heap, self_df, audit_log>>
    /\ pc' = "drop_duplicates"
    /\ UNCHANGED idx /\ Frame

\* _apply_global_rules, second statement
GlobalDropDuplicates ==
    /\ pc = "drop_duplicates"
    /\ IF rules.global_rules.drop_duplicates
       THEN LET after == drop_duplicates(Df)
            IN Rebind(after) /\ Log(EntryDuplicates(Df.n - after.n))
       ELSE UNCHANGED <<heap, self_df, audit_log>>
    /\ pc' = "loop"
    /\ UNCHANGED idx /\ Frame

\* apply(): if col not in self.df.columns: continue
ColumnAbsent ==
    /\ pc = "loop" /\ idx <= Len(rules.columns)
    /\ ~HasCol(Df, Cur.col)
    /\ idx' = idx + 1
    /\ UNCHANGED <<heap, self_df, audit_log, pc>> /\ Frame

\* apply(): if rule.get("drop"): drop the column, log, continue
DropColumn ==
    /\ pc = "loop" /\ idx <= Len(rules.columns)
    /\ HasCol(Df, Cur.col)
    /\ IsDropRule(Cur.rule)
    /\ InPlace(DropCols(Df, Cur.col))
    /\ Log(EntryDropped(Cur.col))
    /\ idx' = idx + 1
    /\ UNCHANGED pc /\ Frame

\* apply(): the column is kept, its three handlers follow
EnterColumn ==
    /\ pc = "loop" /\ idx <= Len(rules.columns)
    /\ HasCol(Df, Cur.col)
    /\ ~IsDropRule(Cur.rule)
    /\ pc' = HandlerOrder[1]
    /\ UNCHANGED <<heap, self_df, audit_log, idx>> /\ Frame

\* the column after the cast to target_type
CastColumn(col, target_type) ==
    CASE target_type = "numeric" -> safe_to_numeric(col)
      [] target_type = "datetime" ->
            [col EXCEPT !.kind = "M",
                        !.cells = [i \in DOMAIN col.cells |->
                                     IF col.cells[i].t \in {"num", "dt"}
                                     THEN [col.cells[i] EXCEPT !.t = "dt"] ELSE NaN]]
      [] OTHER -> [col EXCEPT !.kind = "c"]

\* _handle_type_cast
HandleTypeCast ==
    /\ pc = "type_cast"
    /\ IF Cur.rule.type \in {"numeric", "datetime", "categorical"}
       THEN /\ InPlace(SetCol(Df, Cur.col, CastColumn(GetCol(Df, Cur.col), Cur.rule.type)))
            /\ Log(EntryCast(Cur.col, Cur.rule.type))
       ELSE UNCHANGED <<heap, self_df, audit_log>>
    /\ Continue
    /\ Frame

\* _handle_missing
HandleMissing ==
    /\ pc = "missing"
    /\ LET strategy == Cur.rule.missing
           col      == GetCol(Df, Cur.col)
           before   == isna_sum(col.cells)
       IN IF strategy = ""
          THEN Continue /\ UNCHANGED <<heap, self_df, audit_log>>
          ELSE \E outcome \in MissingOutcomes(col, strategy) :
                 IF outcome = "raise"
                 THEN Raise
                 ELSE /\ IF strategy = "drop"
                         THEN Rebind(dropna_subset(Df, Cur.col))
                         ELSE InPlace(SetCol(Df, Cur.col, FillColumn(col, strategy)))
                      /\ Log(EntryMissing(Cur.col, before,
                                          isna_sum(GetCol(heap'[self_df'], Cur.col).cells),
                                          strategy))
                      /\ Continue
    /\ Frame

\* the mask (self.df[col] >= lower) & (self.df[col] <= upper), row by row
InBounds(c, b) == AtLeastLower(c, b) /\ AtMostUpper(c, b)

\* _handle_outliers
HandleOutliers ==
    /\ pc = "outliers"
    /\ LET col == GetCol(Df, Cur.col) IN
       IF ~Cur.rule.outliers
       THEN Continue /\ UNCHANGED <<heap, self_df, audit_log>>
       ELSE \E outcome \in OutlierOutcomes(col) :
              IF outcome = "raise"
              THEN Raise
              ELSE LET bounds == calculate_iqr_bounds(col.cells)
                       after  == FilterRows(Df, {i \in 1..Df.n : InBounds(col.cells[i], bounds)})
                   IN /\ Rebind(after)
                      /\ Log(EntryOutliers(Cur.col, Df.n - after.n))
                      /\ Continue
    /\ Frame

\* apply(): return self.df, self.audit_log
Return ==
    /\ pc = "loop" /\ idx > Len(rules.columns)
    /\ pc' = "returned"
    /\ UNCHANGED <<heap, self_df, audit_log, idx>> /\ Frame

(***************************************************************************)
(* The datasets and rulesets apply() is run on.                            *)
(***************************************************************************)
NumCells == {NaN, Num(1), Num(9)}
StrCells == {NaN, Str("a"), Str("b")}

\* the sequence a function on 1..k is
AsSeq(f) == SubSeq(f, 1, Len(f))

\* a column as a file reader builds it: numbers and blanks give a float
\* column, strings and blanks an object column, blanks alone a float column,
\* and a column without rows an object column
IsInputColumn(kind, cells) ==
    IF kind = "f" THEN cells # <<>> /\ ~HasStr(cells)
    ELSE cells = <<>> \/ (HasStr(cells) /\ \A i \in DOMAIN cells : cells[i].t \in {"nan", "str"})

Column(name, kind, cells) == [name |-> name, kind |-> kind, cells |-> AsSeq(cells)]

NameX == {<<"x">>, <<" ", "X">>}
NameY == <<"y">>
YCells == {NaN, Str("a")}

Types == {"", "numeric", "datetime", "categorical"}
Strategies == {"", "mean", "median", "mode", "constant", "drop"}

\* a rule as the application builds it: any fragments, or drop (alone when
\* ticked by hand, beside other fragments when suggested)
Rules ==
    [drop : {FALSE}, type : Types, missing : Strategies, outliers : BOOLEAN]
    \cup {[drop |-> TRUE, type |-> "", missing |-> "", outliers |-> FALSE],
          [drop |-> TRUE, type |-> "numeric", missing |-> "mean", outliers |-> TRUE]}

YRules ==
    {r \in Rules : \/ r.drop /\ r.type = ""
                   \/ ~r.drop /\ r.type = "" /\ ~r.outliers /\ r.missing \in {"mode", "constant"}
                   \/ ~r.drop /\ r.type = "numeric" /\ r.outliers /\ r.missing = "drop"}

GlobalRules == [standardize_column_names : BOOLEAN, drop_duplicates : BOOLEAN]

\* rules["columns"]: a dict, iterated in insertion order; the first column's
\* rule is keyed by its standardized name
XEntries == {[col |-> <<"x">>, rule |-> r] : r \in Rules}
YEntries == {[col |-> NameY, rule |-> r] : r \in YRules}

ColumnRulesOne == {<<>>} \cup {<<e>> : e \in XEntries}

ColumnRulesTwo ==
    {<<e>> : e \in YEntries}
    \cup {<<x, y>> : x \in {e \in XEntries : e.rule.type = "" \/ e.rule.drop}, y \in YEntries}
    \cup {<<y, x>> : x \in {e \in XEntries : e.rule.type = "" \/ e.rule.drop}, y \in YEntries}

NoProfile == [pc |-> "idle"]

\* the state RuleEngine(D, R) is constructed in, apply() about to start
Constructed(D, R) ==
    /\ heap = [r \in {1, 2} |-> D]
    /\ orig = D
    /\ self_df = EngineDfRef
    /\ rules = R
    /\ audit_log = <<>>
    /\ pc = "standardize"
    /\ idx = 1

\* the datasets: one column of up to MaxCells rows, or two columns of up to
\* MaxCells \div 2 rows, the second one of text
Init ==
    /\ \/ \E k \in 0..MaxCells, nm \in NameX :
             \E x \in [1..k -> NumCells] \cup [1..k -> StrCells] :
                \E xkind \in {"f", "O"}, g \in GlobalRules, c \in ColumnRulesOne :
                   /\ IsInputColumn(xkind, x)
                   /\ Constructed([n |-> k, cols |-> <<Column(nm, xkind, x)>>],
                                  [global_rules |-> g, columns |-> c])
       \/ \E k \in 0..(MaxCells \div 2), nm \in NameX :
             \E x \in [1..k -> NumCells] \cup [1..k -> StrCells], y \in [1..k -> YCells] :
                \E xkind \in {"f", "O"}, g \in GlobalRules, c \in ColumnRulesTwo :
                   /\ IsInputColumn(xkind, x) /\ IsInputColumn("O", y)
                   /\ Constructed([n |-> k, cols |-> <<Column(nm, xkind, x), Column(NameY, "O", y)>>],
                                  [global_rules |-> g, columns |-> c])
    /\ pass = 1
    /\ first = [df |-> orig, audit_log |-> <<>>]
    /\ prof = NoProfile

Next ==
    \/ GlobalStandardize
    \/ GlobalDropDuplicates
    \/ ColumnAbsent
    \/ DropColumn
    \/ EnterColumn
    \/ HandleTypeCast
    \/ HandleMissing
    \/ HandleOutliers
    \/ Return

Spec == Init /\ [][Next]_vars

(***************************************************************************)
(* Properties of RuleEngine.apply().                                       *)
(***************************************************************************)
\* position of a column name in rules["columns"]
KeyPos(name) == CHOOSE i \in DOMAIN rules.columns : rules.columns[i].col = name

\* the audit entries that name column name, in log order
EntriesFor(name) == SelectSeq(audit_log, LAMBDA e : e.kind \notin {"standardized", "duplicates"} /\ e.col = name)

EntryKinds(entries) == [i \in DOMAIN entries |-> entries[i].kind]

\* the loop of apply() has moved past pair i
Processed(i) == pc \in {"loop", "returned"} /\ idx > i

\* C1: the dataset the caller passed to RuleEngine(D, R) is, at every point of
\* apply() and after it, equal to what it was before the call: names, column
\* order, row count, cells and column types.
C1_CallerDatasetUnchanged == heap[CallerRef] = orig

\* apply() has returned a dataset that differs from the caller's after an
\* in-place operation (a column dropped or a column assigned)
C1_Witness ==
    /\ pc = "returned"
    /\ Df # orig
    /\ \E i \in DOMAIN audit_log : audit_log[i].kind \in {"dropped_column", "cast", "missing"}
    /\ \E i \in DOMAIN audit_log : audit_log[i].kind \in {"standardized", "duplicates", "outliers"}

\* the place of an audit entry in the fixed order of apply()
Rank(e) ==
    CASE e.kind = "standardized" -> 0
      [] e.kind = "duplicates" -> 1
      [] e.kind \in {"dropped_column", "cast"} -> 3 * KeyPos(e.col) + 2
      [] e.kind = "missing" -> 3 * KeyPos(e.col) + 3
      [] OTHER -> 3 * KeyPos(e.col) + 4

LogInOrder == \A i, j \in DOMAIN audit_log : i < j => Rank(audit_log[i]) < Rank(audit_log[j])

\* a kept column with a missing strategy and an outliers rule has, once its
\* turn is over, the missing entry and then the outliers entry (after the cast
\* entry when the rule also casts), and no other entry
MissingThenOutliers ==
    \A i \in DOMAIN rules.columns :
        LET key == rules.columns[i].col
            r   == rules.columns[i].rule
        IN (Processed(i) /\ HasCol(Df, key) /\ ~r.drop /\ r.missing # "" /\ r.outliers)
             => EntryKinds(EntriesFor(key)) =
                  (IF r.type = "" THEN <<>> ELSE <<"cast">>) \o <<"missing", "outliers">>

\* the rows the outlier step keeps when it runs on column name of df
KeptByBounds(df, name) ==
    LET cells == GetCol(df, name).cells
        b     == calculate_iqr_bounds(cells)
    IN FilterRows(df, {i \in 1..df.n : /\ ~b.nan /\ ~isna(cells[i])
                                     /\ 8 * cells[i].n >= b.lower /\ 8 * cells[i].n <= b.upper})

\* one column, one rule {missing: fill strategy, outliers}, no global rule:
\* what apply() returns is the outlier filter of the filled column
FilledThenFiltered ==
    (/\ pc = "returned"
     /\ ~rules.global_rules.standardize_column_names
     /\ ~rules.global_rules.drop_duplicates
     /\ Len(rules.columns) = 1
     /\ HasCol(orig, rules.columns[1].col)
     /\ rules.columns[1].rule.type = ""
     /\ ~rules.columns[1].rule.drop
     /\ rules.columns[1].rule.missing \in {"mean", "median", "mode", "constant"}
     /\ rules.columns[1].rule.outliers)
    => LET key    == rules.columns[1].col
           filled == SetCol(orig, key, FillColumn(GetCol(orig, key), rules.columns[1].rule.missing))
       IN /\ Df = KeptByBounds(filled, key)
          /\ audit_log[2].a = orig.n - Df.n

ChangeLogged(before, after, entry) ==
    /\ ColNames(after) # ColNames(before) /\ Len(after.cols) = Len(before.cols)
          => entry.kind = "standardized"
    /\ Len(after.cols) < Len(before.cols) => entry.kind = "dropped_column"
    /\ after.n < before.n => entry.kind \in {"duplicates", "missing", "outliers"}
    /\ (/\ after.n = before.n /\ Len(after.cols) = Len(before.cols)
        /\ ColNames(after) = ColNames(before))
          => entry.kind \in {"cast", "missing"}

\* C3: every step of apply() leaves the audit log as it was or appends one
\* entry to it, and a step that changes the working dataset appends exactly
\* one entry, of the kind that goes with the change.
C3_NoSilentMutation ==
    [][/\ \/ audit_log' = audit_log
          \/ /\ Len(audit_log') = Len(audit_log) + 1
             /\ SubSeq(audit_log', 1, Len(audit_log)) = audit_log
       /\ heap'[self_df'] # heap[self_df]
            => /\ Len(audit_log') = Len(audit_log) + 1
               /\ ChangeLogged(heap[self_df], heap'[self_df'], audit_log'[Len(audit_log')])]_vars

\* apply() has returned after renaming, removing rows, casting and filling
C3_Witness ==
    /\ pc = "returned"
    /\ Len(audit_log) >= 4
    /\ Df.n < orig.n
    /\ \E i \in DOMAIN Df.cols : Df.cols[i].kind # orig.cols[i].kind
    /\ ColNames(Df) # ColNames(orig)

\* the step of apply() at a present column whose rule says drop
DropStep ==
    (pc = "loop" /\ idx <= Len(rules.columns) /\ HasCol(Df, Cur.col) /\ Cur.rule.drop)
    => /\ heap'[self_df'] = [n |-> Df.n, cols |-> SelectSeq(Df.cols, LAMBDA c : c.name # Cur.col)]
       /\ audit_log' = Append(audit_log, EntryDropped(Cur.col))
       /\ pc' = "loop" /\ idx' = idx + 1

\* a column whose rule says drop is gone once its turn is over, and the log
\* holds nothing about it but its one "Dropped column" entry (none when the
\* column was absent)
DroppedForGood ==
    \A i \in DOMAIN rules.columns :
        (Processed(i) /\ rules.columns[i].rule.drop)
          => /\ ~HasCol(Df, rules.columns[i].col)
             /\ EntriesFor(rules.columns[i].col) \in {<<>>, <<EntryDropped(rules.columns[i].col)>>}

\* C4: at a present column whose rule has drop: true, whatever else the rule
\* carries, apply() removes the column, appends the one 'Dropped column' entry
\* and goes on to the next column: no cast, no missing-value step and no
\* outlier step for it, row count and the other columns untouched; the column
\* stays out and the log never gets another entry for it.
C4_DropShortCircuits == [][DropStep /\ DroppedForGood']_vars

\* of two columns, the one whose rule carries drop beside type, missing and
\* outliers fragments was dropped, the other one is there
C4_Witness ==
    /\ pc = "returned"
    /\ Len(orig.cols) = 2 /\ Len(Df.cols) = 1 /\ orig.n = 2
    /\ \E i \in DOMAIN rules.columns :
          /\ rules.columns[i].rule.drop
          /\ rules.columns[i].rule.missing # ""
          /\ rules.columns[i].rule.outliers
          /\ EntriesFor(rules.columns[i].col) = <<EntryDropped(rules.columns[i].col)>>

StrictlyOutside(c, b) == BelowLower(c, b) \/ AboveUpper(c, b)

\* C5 as claimed: the outlier step on a numeric column that has values removes
\* exactly the rows whose value is strictly below lower or strictly above
\* upper, keeps every other row, and logs the number of rows that were
\* strictly outside.
C5_RemovesExactlyStrictOutliers ==
    [][(/\ pc = "outliers" /\ Cur.rule.outliers
        /\ GetCol(Df, Cur.col).kind = "f"
        /\ dropna(GetCol(Df, Cur.col).cells) # <<>>
        /\ pc' # "raised")
       => LET cells == GetCol(Df, Cur.col).cells
              b     == calculate_iqr_bounds(cells)
          IN /\ heap'[self_df'] = FilterRows(Df, {i \in 1..Df.n : ~StrictlyOutside(cells[i], b)})
             /\ audit_log'[Len(audit_log')].a =
                   Cardinality({i \in DOMAIN cells : StrictlyOutside(cells[i], b)})]_vars

\* the missing-value step of the current column fails on every pandas version
MissingStepFails ==
    /\ Cur.rule.missing # ""
    /\ MissingOutcomes(GetCol(Df, Cur.col), Cur.rule.missing) = {"raise"}

\* C6 as claimed: apply() never ends, because the missing-value step of one
\* column failed, with a later column of the ruleset that is present in the
\* dataset left unprocessed.
C6_LaterColumnsStillProcessed ==
    (pc = "raised" /\ MissingStepFails)
      => \A j \in (idx + 1)..Len(rules.columns) : ~HasCol(Df, rules.columns[j].col)

\* a float column with rows and no value in any of them
AllMissingFloat(col) == col.kind = "f" /\ col.cells # <<>> /\ dropna(col.cells) = <<>>

\* C10 as claimed: on a numeric column whose cells are all missing, a mean,
\* median or mode fill and the outlier step raise nothing, fill nothing and
\* remove no row, and the outlier entry counts 0.
C10_NoValuesIsNoOp ==
    [][(/\ \/ pc = "missing" /\ Cur.rule.missing \in {"mean", "median", "mode"}
           \/ pc = "outliers" /\ Cur.rule.outliers
        /\ AllMissingFloat(GetCol(Df, Cur.col)))
       => /\ pc' # "raised"
          /\ heap'[self_df'] = Df
          /\ pc = "outliers" => audit_log'[Len(audit_log')].a = 0]_vars

(***************************************************************************)
(* The global phase applied twice: apply() with no per-column rules, then  *)
(* apply() with the same rules on the dataset the first call returned.     *)
(***************************************************************************)
Chars == {" ", "X", "x", "_", "-"}

DupCells == {NaN, Num(1)}
SecondNames == {<<"x">>, <<"X", " ">>}

\* two float columns of up to MaxDupRows rows; the first name is any name of up
\* to MaxNameLen characters, and the names may collide once standardized
InitGlobal ==
    /\ \E k \in 0..MaxDupRows, len \in 0..MaxNameLen :
          \E n1 \in [1..len -> Chars], n2 \in SecondNames,
             c1 \in [1..k -> DupCells], c2 \in [1..k -> DupCells], g \in GlobalRules :
                Constructed([n |-> k, cols |-> <<Column(AsSeq(n1), "f", c1), Column(n2, "f", c2)>>],
                            [global_rules |-> g, columns |-> <<>>])
    /\ pass = 1
    /\ first = [df |-> orig, audit_log |-> <<>>]
    /\ prof = NoProfile

\* RuleEngine(result, R) on what the first apply() returned
Reapply ==
    /\ pc = "returned" /\ pass = 1
    /\ first' = [df |-> Df, audit_log |-> audit_log]
    /\ heap' = [r \in {1, 2} |-> Df]
    /\ orig' = Df
    /\ self_df' = EngineDfRef
    /\ audit_log' = <<>>
    /\ pc' = "standardize"
    /\ idx' = 1
    /\ pass' = 2
    /\ UNCHANGED <<rules, prof>>

NextGlobal ==
    \/ GlobalStandardize
    \/ GlobalDropDuplicates
    \/ Return
    \/ Reapply

SpecGlobal == InitGlobal /\ [][NextGlobal]_vars

\* C7: the second application of the global phase returns the dataset the
\* first one returned (every standardized name is left as it is, no row is
\* removed), and its drop_duplicates entry reads 'Dropped 0 duplicate rows'.
C7_GlobalPhaseIdempotent ==
    (pass = 2 /\ pc = "returned")
      => /\ Df = first.df
         /\ rules.global_rules.standardize_column_names
               => \A i \in DOMAIN Df.cols : StandardizeName(Df.cols[i].name) = Df.cols[i].name
         /\ \A i \in DOMAIN audit_log :
               audit_log[i].kind = "duplicates" => audit_log[i].a = 0

\* the second application has returned, after a first one that renamed a
\* column and removed duplicate rows
C7_Witness ==
    /\ pass = 2 /\ pc = "returned"
    /\ Len(audit_log) = 2
    /\ \E i \in DOMAIN first.audit_log :
          first.audit_log[i].kind = "duplicates" /\ first.audit_log[i].a >= 2
    /\ first.df.cols[1].name = <<"_", "x">>
    /\ first.df.cols[2].name = <<"x">>

(***************************************************************************)
(* DataProfiler.profile() on a dataset of one column, and the rule the     *)
(* application suggests from the profile.                                  *)
(***************************************************************************)
DatetimeThreshold10 == 7     \* try_parse_datetime: threshold = 0.7, in tenths
CategoricalMaxUnique == 20   \* infer_column_type: nunique <= 20
DropAbovePercent == 40       \* suggestion: missing_percent > 40
MeanBelowPercent == 5        \* suggestion: missing_percent < 5
MedianBelowPercent == 30     \* suggestion: missing_percent < 30

DateStrings == {"2024-01-01"}

\* a/b rounded to the nearest integer, halves to the even one (Python round)
RoundDiv(a, b) ==
    LET q == a \div b
        r == a % b
    IN IF 2 * r < b THEN q
       ELSE IF 2 * r > b THEN q + 1
       ELSE IF q % 2 = 0 THEN q ELSE q + 1

\* pd.to_datetime(errors="coerce") gives a timestamp for this cell
ParsesAsDatetime(c) == c.t \in {"num", "dt"} \/ (c.t = "str" /\ c.s \in DateStrings)

\* try_parse_datetime(series): parsed.notna().mean() >= threshold; the mean of
\* an empty series is NaN and the comparison False
try_parse_datetime(cells) ==
    /\ cells # <<>>
    /\ 10 * Cardinality({i \in DOMAIN cells : ParsesAsDatetime(cells[i])})
          >= DatetimeThreshold10 * Len(cells)

\* Series.nunique(dropna=True)
nunique(cells) == Cardinality(Range(dropna(cells)))

\* infer_column_type(series)
infer_column_type(col) ==
    IF try_parse_datetime(col.cells) THEN "datetime"
    ELSE IF col.kind = "f" THEN "numeric"
    ELSE IF nunique(col.cells) <= CategoricalMaxUnique THEN "categorical"
    ELSE "text"

NoOutlierInfo == [present |-> FALSE, outlier_count |-> 0, outlier_percent |-> 0]

\* the cells of series[(series < lower) | (series > upper)]
OutlierCells(cells) ==
    LET b == calculate_iqr_bounds(cells)
    IN SelectSeq(cells, LAMBDA c : BelowLower(c, b) \/ AboveUpper(c, b))

\* _outlier_info(series) divides by len(series)
OutlierInfoRaises(col) == col.kind = "f" /\ Len(col.cells) = 0

\* _outlier_info(series): None for a column that is not numeric; the percent is
\* round(len(outliers) / len(series), 4) * 100, held in hundredths
outlier_info(col) ==
    IF col.kind # "f" THEN NoOutlierInfo
    ELSE LET outliers == OutlierCells(col.cells)
         IN [present |-> TRUE,
             outlier_count |-> Len(dropna(outliers)),
             outlier_percent |-> RoundDiv(10000 * Len(outliers), Len(col.cells))]

\* round(series.isna().mean() * 100, 2), held in hundredths; NaN for a series
\* without rows
missing_percent(cells) ==
    IF cells = <<>> THEN [nan |-> TRUE, v |-> 0]
    ELSE [nan |-> FALSE, v |-> RoundDiv(10000 * isna_sum(cells), Len(cells))]

\* the ColumnProfile profile() builds for one column
ColumnProfile(col) ==
    [dtype |-> col.kind,
     detected_type |-> infer_column_type(col),
     missing_count |-> isna_sum(col.cells),
     missing_percent |-> missing_percent(col.cells),
     unique_count |-> nunique(col.cells),
     sample_value |-> IF dropna(col.cells) # <<>> THEN dropna(col.cells)[1] ELSE NaN,
     is_constant |-> nunique(col.cells) = 1,
     outlier_info |-> outlier_info(col)]

NoRule == [drop |-> FALSE, missing |-> "", outliers |-> FALSE]

\* info["missing_percent"] > p and < p: False when the percent is NaN
PercentAbove(mp, p) == ~mp.nan /\ mp.v > 100 * p
PercentBelow(mp, p) == ~mp.nan /\ mp.v < 100 * p

\* the body of the suggestion loop for one column
SuggestedRule(info) ==
    LET first_part ==
            IF PercentAbove(info.missing_percent, DropAbovePercent)
            THEN [NoRule EXCEPT !.drop = TRUE]
            ELSE IF info.detected_type = "numeric"
            THEN (IF PercentBelow(info.missing_percent, MeanBelowPercent)
                  THEN [NoRule EXCEPT !.missing = "mean"]
                  ELSE IF PercentBelow(info.missing_percent, MedianBelowPercent)
                  THEN [NoRule EXCEPT !.missing = "median"]
                  ELSE NoRule)
            ELSE (IF PercentAbove(info.missing_percent, 0)
                  THEN [NoRule EXCEPT !.missing = "mode"]
                  ELSE NoRule)
    IN IF info.detected_type = "numeric" /\ info.outlier_info.outlier_count > 0
       THEN [first_part EXCEPT !.outliers = TRUE]
       ELSE first_part

ProfStrCells == {NaN, Str("a"), Str("2024-01-01")}

NoInfo == ColumnProfile([name |-> <<>>, kind |-> "O", cells |-> <<>>])

\* the profiled column: up to MaxProfRows numbers and blanks (a float column)
\* or strings and blanks (an object column)
InitProfile ==
    /\ \E k \in 0..MaxProfRows, kind \in {"f", "O"} :
          \E cs \in [1..k -> IF kind = "f" THEN NumCells ELSE ProfStrCells] :
             /\ kind = "O" => (k = 0 \/ HasStr(cs))
             /\ prof = [pc |-> "start", shape |-> <<k, 1>>, col |-> Column(<<"x">>, kind, cs),
                        info |-> NoInfo, rule |-> NoRule, suggested |-> FALSE]
             /\ heap = [r \in {1, 2} |-> [n |-> k, cols |-> <<Column(<<"x">>, kind, cs)>>]]
    /\ orig = heap[CallerRef]
    /\ self_df = CallerRef
    /\ rules = [global_rules |-> [standardize_column_names |-> FALSE, drop_duplicates |-> TRUE],
                columns |-> <<>>]
    /\ audit_log = <<>>
    /\ pc = "idle"
    /\ idx = 1
    /\ pass = 1
    /\ first = [df |-> orig, audit_log |-> <<>>]

\* DataProfiler(df).profile()
Profile ==
    /\ prof.pc = "start"
    /\ prof' = IF OutlierInfoRaises(prof.col)
               THEN [prof EXCEPT !.pc = "raised"]
               ELSE [prof EXCEPT !.pc = "profiled", !.info = ColumnProfile(prof.col)]
    /\ UNCHANGED <<heap, self_df, rules, audit_log, pc, idx, pass, first, orig>>

\* the suggestion loop: the rule is kept when it has a fragment
Suggest ==
    /\ prof.pc = "profiled"
    /\ prof' = [prof EXCEPT !.pc = "suggested",
                            !.rule = SuggestedRule(prof.info),
                            !.suggested = SuggestedRule(prof.info) # NoRule]
    /\ UNCHANGED <<heap, self_df, rules, audit_log, pc, idx, pass, first, orig>>

NextProfile ==
    \/ Profile
    \/ Suggest

SpecProfile == InitProfile /\ [][NextProfile]_vars

\* C8 as claimed: every ColumnProfile that profile() returns has
\* 0 <= missing_percent <= 100 and unique_count <= row_count - missing_count,
\* whatever the number of rows.
C8_ProfileRanges ==
    prof.pc \in {"profiled", "suggested"}
      => /\ ~prof.info.missing_percent.nan
         /\ prof.info.missing_percent.v >= 0
         /\ prof.info.missing_percent.v <= 100 * 100
         /\ prof.info.unique_count <= prof.shape[1] - prof.info.missing_count

\* C9 as claimed: for a column whose missing_percent is above 40 the suggested
\* rule is exactly {drop: true}, without a missing or an outliers fragment.
C9_DropSuppressesOtherFragments ==
    (prof.pc = "suggested" /\ PercentAbove(prof.info.missing_percent, DropAbovePercent))
      => prof.suggested /\ prof.rule = [drop |-> TRUE, missing |-> "", outliers |-> FALSE]

====
